---- MODULE Spec2Model ----
(***************************************************************************)
(* A model of git-commit.py, an Ansible module that stages, commits and    *)
(* pushes the changes of a local git working tree.                         *)
(*                                                                         *)
(* Strings are sequences of one-character strings, so that splitting on    *)
(* newlines and on whitespace is computed and not assumed.  A Python       *)
(* dict is a function from its keys.  One run of main() is one behaviour:  *)
(* Init draws the module parameters, every later action is a statement     *)
(* group of main(), and the outcomes of the external commands are drawn    *)
(* by the action that invokes them.                                        *)
(*                                                                         *)
(* Covered: the required_if rules and the validation of the comment, the  *)
(* rewriting of ssh_opts, get_repo_path over a small file system, the      *)
(* creation and the cleanup of the ssh wrapper script with the environment *)
(* variables of set_git_ssh, the commands list, the loop over it and       *)
(* _get_diff_index.  branch, remote, push_option, set_upstream and         *)
(* executable only shape command strings and are not part of the state.    *)
(***************************************************************************)
EXTENDS Integers, Sequences, FiniteSets, TLC

VARIABLES
    params,         \* module.params
    environ,        \* os.environ: GIT_SSH, GIT_KEY, GIT_SSH_OPTS
    fsys,           \* the working tree: its .git entry and the directories
    pc,             \* position of main(), or the way the process ended
    ssh_opts,       \* the local ssh_opts of main()
    run_env,        \* module.run_command_environ_update
    repo_path,      \* the local repo_path of main()
    files_on_disk,  \* the temporary files that exist
    cleanup_files,  \* module.cleanup_files, filled by add_cleanup_file
    unlinks,        \* how many times the wrapper script has been deleted
    git_version_used, \* result of git_version()
    commands,       \* the list of labels built by main()
    idx,            \* index of the next element of commands in the for loop
    prev_results,   \* the tuple passed to the next command
    result,         \* the dict handed to exit_json
    invoked,        \* every command(...) call of the loop, with what it returned
    processes,      \* every module.run_command call, with what it was given
    failure         \* the message handed to fail_json, or the uncaught exception

vars == <<params, environ, fsys, pc, ssh_opts, run_env, repo_path,
          files_on_disk, cleanup_files, unlinks, git_version_used, commands,
          idx, prev_results, result, invoked, processes, failure>>

-----------------------------------------------------------------------------
(* Bounds and input sets *)

MaxAdd == 1
MaxLines == 2
MaxMsg == 3

None == <<"<None>">>
NL == "\n"
SP == " "
TAB == "\t"
Whitespace == {SP, TAB, NL}

LocalPath == <<"/", "r">>
LocalPathDotGit == <<"/", "x", ".", "g", "i", "t", "/", "w">>
SshWrapper == <<"/", "t", "m", "p">>
AddPaths == {<<".">>, <<"a">>}
Comments == {None, <<>>, <<"f", "i", "x">>}
CmdOuts == {<<>>, <<"o">>}
CmdErrs == {<<>>, <<"e">>}
ExitCodes == {0, 1}

\* lines that diff-index --name-status may print, and some it should not
StatusLines ==
    { <<"M", SP, "a">>, <<"A", TAB, "b">>, <<"D", SP, "a">>, <<"R", SP, "c">>,
      <<"M">>, <<"M", SP, "a", SP, "b">> }

SeqsUpTo(S, n) == UNION { [1..k -> S] : k \in 0..n }

RECURSIVE JoinLines(_)
JoinLines(ls) ==
    IF ls = <<>> THEN <<>> ELSE Head(ls) \o <<NL>> \o JoinLines(Tail(ls))

\* the stdout of diff-index: every line ended by a newline
DiffOutputs == { JoinLines(ls) : ls \in SeqsUpTo(StatusLines, MaxLines) }

-----------------------------------------------------------------------------
(* Python values and the string operations of _get_diff_index *)

EmptyDict == [k \in {} |-> TRUE]
DictUpdate(d, e) == [k \in (DOMAIN d) \cup (DOMAIN e) |->
                        IF k \in DOMAIN e THEN e[k] ELSE d[k]]

PyTuple(v) == [type |-> "tuple", val |-> v]
PyStr(v) == [type |-> "str", val |-> v]
AttributeError == [type |-> "AttributeError", val |-> <<>>]
ValueError == [type |-> "ValueError", val |-> <<>>]

\* x[:-1]
SliceButLast(x) ==
    [type |-> x.type,
     val |-> IF Len(x.val) = 0 THEN <<>> ELSE SubSeq(x.val, 1, Len(x.val) - 1)]

\* s.split(sep) on a string of characters: the list of the pieces between
\* the separators, empty pieces included
RECURSIVE SplitChars(_, _, _)
SplitChars(s, sep, cur) ==
    IF s = <<>> THEN <<cur>>
    ELSE IF Head(s) = sep
         THEN <<cur>> \o SplitChars(Tail(s), sep, <<>>)
         ELSE SplitChars(Tail(s), sep, Append(cur, Head(s)))

\* x.split('\n'): only str has the attribute
PySplit(x, sep) ==
    IF x.type = "str" THEN PyTuple(SplitChars(x.val, sep, <<>>))
    ELSE AttributeError

\* re.split(r'\s+', s): the pieces between maximal runs of whitespace
RECURSIVE ReSplitWs(_, _, _)
ReSplitWs(s, cur, inWs) ==
    IF s = <<>> THEN <<cur>>
    ELSE IF Head(s) \in Whitespace
         THEN IF inWs THEN ReSplitWs(Tail(s), cur, TRUE)
              ELSE <<cur>> \o ReSplitWs(Tail(s), <<>>, TRUE)
         ELSE ReSplitWs(Tail(s), Append(cur, Head(s)), FALSE)

ReSplit(s) == ReSplitWs(s, <<>>, FALSE)

NoChanges == [added |-> <<>>, modified |-> <<>>, deleted |-> <<>>]

\* the body of the for loop over staged_files: one line
StageAction(token) ==
    IF token = <<"A">> THEN "added"
    ELSE IF token = <<"D">> THEN "deleted"
    ELSE IF token = <<"M">> THEN "modified"
    ELSE "continue"

\* the for loop: the changes dict, or ValueError when a line does not unpack
\* into [stage_action, filename]
RECURSIVE ClassifyLines(_, _)
ClassifyLines(staged_files, changes) ==
    IF staged_files = <<>> THEN changes
    ELSE LET tokens == ReSplit(Head(staged_files))
         IN IF Len(tokens) # 2 THEN ValueError
            ELSE LET action == StageAction(tokens[1])
                 IN IF action = "continue"
                    THEN ClassifyLines(Tail(staged_files), changes)
                    ELSE ClassifyLines(Tail(staged_files),
                            [changes EXCEPT ![action] = Append(@, tokens[2])])

\* _get_diff_index(*args): what the call does to result and how it ends
GetDiffIndex(args, res, local_path) ==
    LET updated == DictUpdate(res, [local_path |-> local_path,
                                    changed |-> FALSE,
                                    files |-> EmptyDict])
        staged_files == PySplit(SliceButLast(args), NL)
    IN IF staged_files.type # "tuple"
       THEN [kind |-> "raise", exc |-> staged_files.type, result |-> updated]
       ELSE IF Len(staged_files.val) # 0
       THEN LET changes == ClassifyLines(staged_files.val, NoChanges)
            IN IF changes = ValueError
               THEN [kind |-> "raise", exc |-> "ValueError", result |-> updated]
               ELSE [kind |-> "return", exc |-> "",
                     result |-> DictUpdate(updated, [changed |-> TRUE,
                                                     files |-> changes])]
       ELSE [kind |-> "exit", exc |-> "", result |-> updated]

-----------------------------------------------------------------------------
(* Strings of main(), set_git_ssh and get_repo_path *)

Range(f) == { f[i] : i \in DOMAIN f }

\* Python truthiness of a string, a list or None
Truthy(v) == v # None /\ v # <<>>

\* t in s
Contains(s, t) ==
    \E i \in 1..(Len(s) - Len(t) + 1) : SubSeq(s, i, i + Len(t) - 1) = t

\* "-o StrictHostKeyChecking=no"
HostKeyFlag ==
    <<"-", "o", " ", "S", "t", "r", "i", "c", "t", "H", "o", "s", "t", "K",
      "e", "y", "C", "h", "e", "c", "k", "i", "n", "g", "=", "n", "o">>

\* the value of ssh_opts after "if module.params['accept_hostkey']:" was taken
AcceptHostkeyAlwaysAppends(opts) ==
    IF opts # None THEN opts \o <<SP>> \o HostKeyFlag ELSE HostKeyFlag

AcceptHostkey(opts) ==
    IF opts # None
    THEN IF ~Contains(opts, HostKeyFlag)
         THEN opts \o <<SP>> \o HostKeyFlag
         ELSE opts
    ELSE HostKeyFlag

\* dict(LANG='C', LC_ALL='C', LC_MESSAGES='C', LC_CTYPE='C')
LocaleC == [LANG |-> "C", LC_ALL |-> "C", LC_MESSAGES |-> "C", LC_CTYPE |-> "C"]

\* module.run_command_environ_update after lines 270-280: the assignment is in
\* the else branch of "if ssh_opts is not None"
EnvironUpdate(accept_hostkey, opts, before) ==
    IF accept_hostkey /\ opts = None THEN LocaleC ELSE before

\* comment.replace("\"", r"\"", -1)
RECURSIVE EscapeQuotes(_)
EscapeQuotes(s) ==
    IF s = <<>> THEN <<>>
    ELSE IF Head(s) = "\""
         THEN <<"\\", "\"">> \o EscapeQuotes(Tail(s))
         ELSE <<Head(s)>> \o EscapeQuotes(Tail(s))

\* the argument of commit -m in the command string: "{}" around the comment
CommitMessageArg(comment) == <<"\"">> \o EscapeQuotes(comment) \o <<"\"">>

\* os.environ: a variable is absent or has a string value
Absent == None
EnvNames == {"GIT_SSH", "GIT_KEY", "GIT_SSH_OPTS"}

\* if os.environ.get(name): del os.environ[name]
DelIfSet(env, name) ==
    IF Truthy(env[name]) THEN [env EXCEPT ![name] = Absent] ELSE env

\* set_git_ssh(ssh_wrapper, key_file, ssh_opts)
SetGitSshKeepsStale(env, ssh_wrapper, key_file, opts) ==
    LET e1 == IF env["GIT_SSH"] = Absent
              THEN [env EXCEPT !["GIT_SSH"] = ssh_wrapper] ELSE env
        e2 == DelIfSet(e1, "GIT_KEY")
        e3 == IF Truthy(key_file) THEN [e2 EXCEPT !["GIT_KEY"] = key_file] ELSE e2
        e4 == DelIfSet(e3, "GIT_SSH_OPTS")
    IN IF Truthy(opts) THEN [e4 EXCEPT !["GIT_SSH_OPTS"] = opts] ELSE e4

SetGitSsh(env, ssh_wrapper, key_file, opts) ==
    LET e1 == [DelIfSet(env, "GIT_SSH") EXCEPT !["GIT_SSH"] = ssh_wrapper]
        e2 == DelIfSet(e1, "GIT_KEY")
        e3 == IF Truthy(key_file) THEN [e2 EXCEPT !["GIT_KEY"] = key_file] ELSE e2
        e4 == DelIfSet(e3, "GIT_SSH_OPTS")
    IN IF Truthy(opts) THEN [e4 EXCEPT !["GIT_SSH_OPTS"] = opts] ELSE e4

DotGit ==
    <<".", "g", "i", "t">>
GitdirPrefix ==
    <<"g", "i", "t", "d", "i", "r", ":", " ">>

\* os.path.isabs(p)
IsAbs(p) == p # <<>> /\ Head(p) = "/"

\* os.path.join(a, b)
PathJoin(a, b) ==
    IF IsAbs(b) THEN b
    ELSE IF a = <<>> \/ a[Len(a)] = "/" THEN a \o b
    ELSE a \o <<"/">> \o b

\* s.rstrip()
RECURSIVE RStrip(_)
RStrip(s) ==
    IF s # <<>> /\ s[Len(s)] \in Whitespace
    THEN RStrip(SubSeq(s, 1, Len(s) - 1))
    ELSE s

\* the index of the first occurrence of t in s, 0 when there is none
FirstIndex(s, t) ==
    IF Contains(s, t)
    THEN CHOOSE i \in 1..(Len(s) - Len(t) + 1) :
            /\ SubSeq(s, i, i + Len(t) - 1) = t
            /\ \A j \in 1..(i - 1) : SubSeq(s, j, j + Len(t) - 1) # t
    ELSE 0

\* s.split(t)[0]
BeforeFirst(s, t) ==
    IF FirstIndex(s, t) = 0 THEN s ELSE SubSeq(s, 1, FirstIndex(s, t) - 1)

\* s.split(t, 1)
SplitOnce(s, t) ==
    LET i == FirstIndex(s, t)
    IN IF i = 0 THEN <<s>>
       ELSE <<SubSeq(s, 1, i - 1), SubSeq(s, i + Len(t), Len(s))>>

\* the components of a path after the kernel resolved "", "." and ".."
RECURSIVE Resolve(_, _)
Resolve(parts, stack) ==
    IF parts = <<>> THEN stack
    ELSE IF Head(parts) \in {<<>>, <<".">>} THEN Resolve(Tail(parts), stack)
    ELSE IF Head(parts) = <<".", ".">>
         THEN Resolve(Tail(parts),
                      IF stack = <<>> THEN <<>>
                      ELSE SubSeq(stack, 1, Len(stack) - 1))
    ELSE Resolve(Tail(parts), Append(stack, Head(parts)))

\* the directory an absolute path names
NormPath(p) == Resolve(SplitChars(p, "/", <<>>), <<>>)

\* os.path.isdir(p) in a file system whose directories are dirs
IsDir(tree, p) == NormPath(p) \in tree.dirs

\* the base of a relative gitdir: repo_path.split('.git')[0]
GitdirBase(entry) == BeforeFirst(entry, DotGit)

\* get_entry(local_path): the path, or the ValueError it raises
RepoPathOf(tree, local_path) ==
    LET entry == PathJoin(local_path, DotGit)
    IN IF tree.dot_git # "file" THEN [ok |-> TRUE, path |-> entry]
       ELSE LET parts == SplitOnce(RStrip(tree.data), GitdirPrefix)
            IN IF Len(parts) # 2 \/ Truthy(parts[1])
               THEN [ok |-> FALSE, path |-> entry]
               ELSE LET gitdir == parts[2]
                        target == IF IsAbs(gitdir) THEN gitdir
                                  ELSE PathJoin(GitdirBase(entry), gitdir)
                    IN [ok |-> IsDir(tree, target), path |-> target]

-----------------------------------------------------------------------------
(* AnsibleModule: exit_json and fail_json delete the registered cleanup    *)
(* files and end the process; an uncaught exception ends it without.       *)

NoFailure == [kind |-> "none", label |-> "", out |-> <<>>, err |-> <<>>]

\* msg="Failed to %s: %s %s" % (label, out, err)
FailMsg(label, out, err) ==
    [kind |-> "fail_json", label |-> label, out |-> out, err |-> err]

Uncaught(exc) == [kind |-> exc, label |-> "", out |-> <<>>, err |-> <<>>]

DoCleanupFiles ==
    /\ files_on_disk' = files_on_disk \ Range(cleanup_files)
    /\ unlinks' = unlinks + Cardinality(files_on_disk \cap Range(cleanup_files))

FailJson(msg) ==
    /\ pc' = "Failed"
    /\ failure' = msg
    /\ DoCleanupFiles

ExitJson ==
    /\ pc' = "Done"
    /\ failure' = failure
    /\ DoCleanupFiles

Raise(exc) ==
    /\ pc' = "Crashed"
    /\ failure' = Uncaught(exc)
    /\ UNCHANGED <<files_on_disk, unlinks>>

-----------------------------------------------------------------------------
(* The requests, environments and working trees a run may start from.  The  *)
(* product of all parameters is too large to enumerate: each family varies  *)
(* the parameters one part of main() reads and leaves the others at the     *)
(* values of BaseParams.                                                    *)

Modes == {"ssh", "https"}
Users == {None, <<"u">>}
Tokens == {None, <<"t">>}
KeyFiles == {None, <<"/", "k">>}
OptFoo == <<"-", "o", " ", "F", "o", "o", "=", "b", "a", "r">>

\* ssh_opts of a request: absent, empty, without the flag, the flag alone,
\* the flag after another option, the flag twice
SshOpts ==
    { None, <<>>, OptFoo, HostKeyFlag, OptFoo \o <<SP>> \o HostKeyFlag,
      HostKeyFlag \o <<SP>> \o HostKeyFlag }

\* a variable of the environment before the run: absent, empty or stale
EnvValues == {Absent, <<>>, <<"s">>}

\* commit messages of ordinary characters, double quotes and backslashes
MsgChars == {"a", "\"", "\\"}
Messages == SeqsUpTo(MsgChars, MaxMsg) \ {<<>>}

GitdirRel == <<".", ".", "/", "o", "/", ".", "g", "i", "t">>
GitdirAbs == <<"/", "o", "/", ".", "g", "i", "t">>

\* contents of a .git file
GitFileData ==
    { GitdirPrefix \o GitdirRel \o <<NL>>,
      GitdirPrefix \o GitdirAbs \o <<NL>>,
      <<"x">> \o GitdirPrefix \o GitdirRel \o <<NL>>,
      <<"j">> }

\* the directories a relative or absolute gitdir of GitFileData can name
GitDirs ==
    { NormPath(PathJoin(LocalPath, GitdirRel)),
      NormPath(PathJoin(LocalPathDotGit, GitdirRel)) }

BaseParams ==
    [local_path |-> LocalPath, add |-> <<>>, commit |-> FALSE, push |-> TRUE,
     comment |-> None, mode |-> "ssh", user |-> None, token |-> None,
     key_file |-> None, ssh_opts |-> None, accept_hostkey |-> FALSE]

\* module.params of a request that does not name accept_hostkey, a key that
\* argument_spec does not declare
WithoutHostkey(p) == [k \in (DOMAIN p) \ {"accept_hostkey"} |-> p[k]]

BaseEnviron == [n \in EnvNames |-> Absent]

BaseFsys == [dot_git |-> "dir", data |-> <<>>, dirs |-> {}]

World(p, e, f) == [params |-> p, environ |-> e, fsys |-> f]

PipelineParams ==
    { [BaseParams EXCEPT !.add = a, !.commit = c, !.push = p, !.comment = m] :
        a \in SeqsUpTo(AddPaths, MaxAdd), c \in BOOLEAN, p \in BOOLEAN,
        m \in Comments }

ValidationParams ==
    { [BaseParams EXCEPT !.commit = c, !.comment = m, !.mode = md,
                         !.user = u, !.token = t] :
        c \in BOOLEAN, m \in Comments, md \in Modes, u \in Users, t \in Tokens }

TransportParams ==
    { [BaseParams EXCEPT !.mode = md, !.user = <<"u">>, !.token = <<"t">>,
                         !.key_file = k, !.ssh_opts = o] :
        md \in Modes, k \in KeyFiles, o \in {None, <<>>, OptFoo} }

HostkeyParams ==
    LET with == { [BaseParams EXCEPT !.add = a, !.commit = TRUE,
                                     !.comment = <<"f", "i", "x">>,
                                     !.ssh_opts = o, !.accept_hostkey = h] :
                    a \in {<<>>, << <<".">> >>}, o \in SshOpts, h \in BOOLEAN }
    IN with \cup { WithoutHostkey(p) : p \in with }

CommentParams ==
    { [BaseParams EXCEPT !.commit = TRUE, !.push = FALSE, !.comment = m] :
        m \in Messages }

RepoParams ==
    { [BaseParams EXCEPT !.local_path = l] : l \in {LocalPath, LocalPathDotGit} }

Params ==
    PipelineParams \cup ValidationParams \cup TransportParams
    \cup HostkeyParams \cup CommentParams \cup RepoParams

Environs == [EnvNames -> EnvValues]

Fsyss ==
    { BaseFsys, [BaseFsys EXCEPT !.dot_git = "absent"] }
    \cup { [dot_git |-> "file", data |-> d, dirs |-> ds] :
             d \in GitFileData, ds \in SUBSET GitDirs }

Worlds ==
    { World(p, BaseEnviron, BaseFsys) :
        p \in PipelineParams \cup ValidationParams \cup HostkeyParams
              \cup CommentParams }
    \cup { World(p, e, BaseFsys) : p \in TransportParams, e \in Environs }
    \cup { World(p, BaseEnviron, f) : p \in RepoParams, f \in Fsyss }

-----------------------------------------------------------------------------
(* main() *)

Init ==
    /\ \E w \in Worlds :
         /\ params = w.params
         /\ environ = w.environ
         /\ fsys = w.fsys
         /\ ssh_opts = w.params.ssh_opts
    /\ pc = "module"
    /\ run_env = EmptyDict
    /\ repo_path = None
    /\ files_on_disk = {}
    /\ cleanup_files = <<>>
    /\ unlinks = 0
    /\ git_version_used = None
    /\ commands = <<>>
    /\ idx = 1
    /\ prev_results = <<>>
    /\ result = EmptyDict
    /\ invoked = <<>>
    /\ processes = <<>>
    /\ failure = NoFailure

\* required_if of AnsibleModule(...): the parameters that must not be absent.
\* add, branch and remote have defaults and are never absent.
RequiredIfOnlyCommit(p) ==
    IF p.commit THEN {"comment"} ELSE {}

RequiredIf(p) ==
    (IF p.commit THEN {"comment"} ELSE {})
    \cup (IF p.mode = "https" THEN {"user", "token"} ELSE {})

\* module = AnsibleModule(...): fails when a required parameter is absent
AnsibleModuleInit ==
    /\ pc = "module"
    /\ IF \E k \in RequiredIf(params) : params[k] = None
       THEN FailJson(FailMsg("required_if", <<>>, <<>>))
       ELSE /\ pc' = "validate"
            /\ UNCHANGED <<files_on_disk, unlinks, failure>>
    /\ UNCHANGED <<params, environ, fsys, ssh_opts, run_env, repo_path,
                   cleanup_files, git_version_used, commands, idx,
                   prev_results, result, invoked, processes>>

\* if commit and not comment: module.fail_json(...)
Validate ==
    /\ pc = "validate"
    /\ IF params.commit /\ ~Truthy(params.comment)
       THEN FailJson(FailMsg("comment", <<>>, <<>>))
       ELSE /\ pc' = "hostkey"
            /\ UNCHANGED <<files_on_disk, unlinks, failure>>
    /\ UNCHANGED <<params, environ, fsys, ssh_opts, run_env, repo_path,
                   cleanup_files, git_version_used, commands, idx,
                   prev_results, result, invoked, processes>>

\* if module.params['accept_hostkey']: ...  (KeyError when the key is absent)
HostKey ==
    /\ pc = "hostkey"
    /\ IF "accept_hostkey" \notin DOMAIN params
       THEN /\ Raise("KeyError")
            /\ UNCHANGED <<ssh_opts, run_env>>
       ELSE /\ ssh_opts' = IF params.accept_hostkey
                           THEN AcceptHostkey(ssh_opts) ELSE ssh_opts
            /\ run_env' = EnvironUpdate(params.accept_hostkey, ssh_opts, run_env)
            /\ pc' = "repo"
            /\ UNCHANGED <<files_on_disk, unlinks, failure>>
    /\ UNCHANGED <<params, environ, fsys, repo_path, cleanup_files,
                   git_version_used, commands, idx, prev_results, result,
                   invoked, processes>>

\* repo_path = get_repo_path(local_path), or fail_json on IOError, ValueError
GetRepoPath ==
    /\ pc = "repo"
    /\ LET found == RepoPathOf(fsys, params.local_path)
       IN IF found.ok
          THEN /\ repo_path' = found.path
               /\ pc' = "wrapper"
               /\ UNCHANGED <<files_on_disk, unlinks, failure>>
          ELSE /\ FailJson(FailMsg("repo_path", <<>>, <<>>))
               /\ UNCHANGED repo_path
    /\ UNCHANGED <<params, environ, fsys, ssh_opts, run_env, cleanup_files,
                   git_version_used, commands, idx, prev_results, result,
                   invoked, processes>>

\* ssh_wrapper = write_ssh_wrapper(); set_git_ssh(ssh_wrapper, key_file,
\* ssh_opts); module.add_cleanup_file(path=ssh_wrapper)
\* mkstemp may fail in both directories: the OSError is not caught
WriteSshWrapper ==
    /\ pc = "wrapper"
    /\ \E created \in BOOLEAN :
         IF created
         THEN /\ files_on_disk' = files_on_disk \cup {SshWrapper}
              /\ environ' = SetGitSsh(environ, SshWrapper, params.key_file,
                                      ssh_opts)
              /\ cleanup_files' = Append(cleanup_files, SshWrapper)
              /\ pc' = "version"
              /\ UNCHANGED <<unlinks, failure>>
         ELSE /\ Raise("OSError")
              /\ UNCHANGED <<cleanup_files, environ>>
    /\ UNCHANGED <<params, fsys, ssh_opts, run_env, repo_path,
                   git_version_used, commands, idx, prev_results, result,
                   invoked, processes>>

\* what module.run_command is given: the command, cwd=, the environment update
\* of the module and the process environment it inherits
Process(label, arg, cwd) ==
    [label |-> label, arg |-> arg, cwd |-> cwd, env_update |-> run_env,
     git_ssh |-> environ["GIT_SSH"],
     wrapper_on_disk |-> SshWrapper \in files_on_disk]

\* git_version_used = git_version(git_path, module): None when rc != 0
GitVersion ==
    /\ pc = "version"
    /\ \E rc \in ExitCodes :
         git_version_used' = IF rc # 0 THEN None ELSE <<"2">>
    /\ processes' = Append(processes, Process("git_version", <<>>, None))
    /\ pc' = "build"
    /\ UNCHANGED <<params, environ, fsys, ssh_opts, run_env, repo_path,
                   files_on_disk, cleanup_files, unlinks, commands, idx,
                   prev_results, result, invoked, failure>>

\* the labels of the commands list, in the order main() appends them
CommandsReordered(add, commit, push) ==
    (IF push THEN <<"git_push">> ELSE <<>>)
    \o (IF commit THEN <<"git_commit">> ELSE <<>>)
    \o (IF Truthy(add)
        THEN <<"git_add", "git_files_added", "git_staged_files">>
        ELSE <<>>)

Commands(add, commit, push) ==
    (IF Truthy(add)
     THEN <<"git_add", "git_files_added", "git_staged_files">>
     ELSE <<>>)
    \o (IF commit THEN <<"git_commit">> ELSE <<>>)
    \o (IF push THEN <<"git_push">> ELSE <<>>)

BuildCommands ==
    /\ pc = "build"
    /\ commands' = Commands(params.add, params.commit, params.push)
    /\ idx' = 1
    /\ prev_results' = <<>>
    /\ pc' = "loop"
    /\ UNCHANGED <<params, environ, fsys, ssh_opts, run_env, repo_path,
                   files_on_disk, cleanup_files, unlinks, git_version_used,
                   result, invoked, processes, failure>>

\* if rc != 0
StepFailsNever(rc) == FALSE

StepFails(rc) == rc # 0

\* the argument of fail_json in the loop
LoopFailMsgSwapped(label, out, err) == FailMsg(label, err, out)

LoopFailMsg(label, out, err) == FailMsg(label, out, err)

\* one iteration of "for (label, command) in commands" after command returned
LoopBody(label, ret) ==
    /\ invoked' = Append(invoked, [label |-> label, ret |-> ret])
    /\ IF StepFails(ret[1])
       THEN /\ FailJson(LoopFailMsg(label, ret[2], ret[3]))
            /\ UNCHANGED <<idx, prev_results>>
       ELSE /\ prev_results' = ret
            /\ idx' = idx + 1
            /\ UNCHANGED <<pc, files_on_disk, unlinks, failure>>

AtCommand(label) ==
    /\ pc = "loop"
    /\ idx <= Len(commands)
    /\ commands[idx] = label

\* a command that is module.run_command(..., cwd=local_path): the tool
\* decides rc, out, err
RunCommand(label, arg, outs) ==
    /\ AtCommand(label)
    /\ processes' = Append(processes, Process(label, arg, params.local_path))
    /\ \E rc \in ExitCodes, out \in outs, err \in CmdErrs :
         LoopBody(label, <<rc, out, err>>)
    /\ UNCHANGED <<params, environ, fsys, ssh_opts, run_env, repo_path,
                   cleanup_files, git_version_used, commands, result>>

GitAdd == RunCommand("git_add", <<>>, CmdOuts)

GitFilesAdded == RunCommand("git_files_added", <<>>, DiffOutputs)

GitCommit == RunCommand("git_commit", CommitMessageArg(params.comment), CmdOuts)

GitPush == RunCommand("git_push", <<>>, CmdOuts)

\* command = _get_diff_index, called with *prev_results
GitStagedFiles ==
    /\ AtCommand("git_staged_files")
    /\ LET call == GetDiffIndex(PyTuple(prev_results), result, params.local_path)
       IN /\ result' = call.result
          /\ IF call.kind = "raise"
             THEN /\ Raise(call.exc)
                  /\ invoked' = Append(invoked, [label |-> "git_staged_files",
                                                 ret |-> <<>>])
                  /\ UNCHANGED <<idx, prev_results>>
             ELSE IF call.kind = "exit"
             THEN /\ ExitJson
                  /\ invoked' = Append(invoked, [label |-> "git_staged_files",
                                                 ret |-> <<>>])
                  /\ UNCHANGED <<idx, prev_results>>
             ELSE LoopBody("git_staged_files", <<0, <<>>, <<>> >>)
    /\ UNCHANGED <<params, environ, fsys, ssh_opts, run_env, repo_path,
                   cleanup_files, git_version_used, commands, processes>>

\* module.exit_json(**result) after the loop
Finish ==
    /\ pc = "loop"
    /\ idx > Len(commands)
    /\ ExitJson
    /\ UNCHANGED <<params, environ, fsys, ssh_opts, run_env, repo_path,
                   cleanup_files, git_version_used, commands, idx,
                   prev_results, result, invoked, processes>>

Next ==
    \/ AnsibleModuleInit
    \/ Validate
    \/ HostKey
    \/ GetRepoPath
    \/ WriteSshWrapper
    \/ GitVersion
    \/ BuildCommands
    \/ GitAdd
    \/ GitFilesAdded
    \/ GitStagedFiles
    \/ GitCommit
    \/ GitPush
    \/ Finish

Spec == Init /\ [][Next]_vars

-----------------------------------------------------------------------------
(* Vocabulary of the properties *)

Terminal == {"Done", "Failed", "Crashed"}

PipelineOrder ==
    <<"git_add", "git_files_added", "git_staged_files", "git_commit", "git_push">>

Rank(label) == CHOOSE i \in DOMAIN PipelineOrder : PipelineOrder[i] = label

\* the flag of the request that enables a step
StepEnabled(label) ==
    IF label = "git_commit" THEN params.commit
    ELSE IF label = "git_push" THEN params.push
    ELSE Truthy(params.add)

Labels == { invoked[i].label : i \in DOMAIN invoked }

Returned(i) == invoked[i].ret # <<>>

ReturnedNonZero(i) == Returned(i) /\ invoked[i].ret[1] # 0

\* the parse step has been called on the stdout of a diff-index that returned 0
ParsedAt(i) ==
    /\ i \in DOMAIN invoked
    /\ i > 1
    /\ invoked[i].label = "git_staged_files"
    /\ invoked[i - 1].label = "git_files_added"

DiffOut(i) == invoked[i - 1].ret[2]

\* the lines of a stdout in which every line ends with a newline
LinesOf(out) ==
    IF out = <<>> THEN <<>>
    ELSE SplitChars(SubSeq(out, 1, Len(out) - 1), NL, <<>>)

TwoTokens(line) == Len(ReSplit(line)) = 2

WellFormed(out) == \A line \in Range(LinesOf(out)) : TwoTokens(line)

\* the paths of the lines whose first token is letter, in line order
BucketOf(lines, letter) ==
    LET sel == SelectSeq(lines, LAMBDA l : ReSplit(l)[1] = <<letter>>)
    IN [i \in 1..Len(sel) |-> ReSplit(sel[i])[2]]

Classification(out) ==
    [added |-> BucketOf(LinesOf(out), "A"),
     modified |-> BucketOf(LinesOf(out), "M"),
     deleted |-> BucketOf(LinesOf(out), "D")]

HasBuckets(files) == DOMAIN files = {"added", "modified", "deleted"}

-----------------------------------------------------------------------------
(* Properties *)

\* C1: a step of the loop that returns a non-zero exit code is the last call of
\* the run, and the run is in the Failed state right after it: no later step
\* (push after a failed commit, for one) is invoked.
C1_ShortCircuit ==
    \A i \in DOMAIN invoked :
        ReturnedNonZero(i) => (i = Len(invoked) /\ pc = "Failed")

\* C1 witness: commit returned non-zero with push enabled, and push was not called
C1_Witness ==
    /\ pc = "Failed"
    /\ params.push
    /\ invoked # <<>>
    /\ invoked[Len(invoked)].label = "git_commit"
    /\ ReturnedNonZero(Len(invoked))

\* C2: the calls of a run are in the order add, diff-index, parse, commit, push,
\* each at most once; only steps whose flag is set are called; and a run that
\* ends in Done has called exactly the enabled steps, a disabled one being
\* skipped without failing the run.
C2_FixedOrder ==
    /\ \A i \in DOMAIN invoked : StepEnabled(invoked[i].label)
    /\ \A i, j \in DOMAIN invoked :
          i < j => Rank(invoked[i].label) < Rank(invoked[j].label)
    /\ pc = "Done" =>
          Labels = { l \in Range(PipelineOrder) : StepEnabled(l) }

\* C2 witness: staging disabled and skipped, commit then push called, run Done
C2_Witness ==
    /\ pc = "Done"
    /\ ~Truthy(params.add)
    /\ Len(invoked) = 2
    /\ invoked[1].label = "git_commit"
    /\ invoked[2].label = "git_push"

\* C3: once the parse step has been called on an empty diff-index stdout, the
\* run is Done with changed = false, no bucket holds a path, and neither commit
\* nor push has been called.
C3_EmptyDiffEndsDone ==
    \A i \in DOMAIN invoked :
        (ParsedAt(i) /\ DiffOut(i) = <<>>) =>
            /\ pc = "Done"
            /\ result.changed = FALSE
            /\ \A b \in DOMAIN result.files : result.files[b] = <<>>
            /\ Labels \cap {"git_commit", "git_push"} = {}

\* C4: commit is called only with the commit flag set and after a parse step of
\* the same run that returned and found a staged change.
C4_CommitOnlyAfterChanges ==
    \A i \in DOMAIN invoked :
        invoked[i].label = "git_commit" =>
            /\ params.commit
            /\ \E j \in 1..(i - 1) :
                  /\ invoked[j].label = "git_staged_files"
                  /\ Returned(j)
            /\ "changed" \in DOMAIN result
            /\ result.changed = TRUE

\* C5: when the run has ended and the wrapper script was created, the wrapper is
\* gone and was deleted exactly once.
C5_WrapperDeletedOnce ==
    (pc \in Terminal /\ SshWrapper \in Range(cleanup_files)) =>
        (SshWrapper \notin files_on_disk /\ unlinks = 1)

\* C6: a failure reported from the loop carries the label of the call that
\* returned non-zero, the last one, with the stdout and stderr of that call.
C6_FailureCarriesStep ==
    (pc = "Failed" /\ invoked # <<>>) =>
        LET last == invoked[Len(invoked)]
        IN /\ Returned(Len(invoked))
           /\ last.ret[1] # 0
           /\ failure.kind = "fail_json"
           /\ failure.label = last.label
           /\ failure.out = last.ret[2]
           /\ failure.err = last.ret[3]

\* C6 witness: push fails after a commit that printed something else
C6_Witness ==
    /\ pc = "Failed"
    /\ Len(invoked) = 2
    /\ invoked[1].label = "git_commit"
    /\ invoked[1].ret = <<0, <<"o">>, <<>> >>
    /\ invoked[2].label = "git_push"
    /\ invoked[2].ret = <<1, <<>>, <<"e">> >>
    /\ failure.label = "git_push"
    /\ failure.err = <<"e">>

\* C7: a run with a staging list, commit and push set, whose commands all
\* returned 0 and whose diff-index printed one or more well-formed lines, ends
\* in Done with changed = true, the classification of those lines as files, and
\* commit and push called.
C7_HappyPathEndsDone ==
    \A i \in DOMAIN invoked :
        ( /\ pc \in Terminal
          /\ params.commit /\ params.push
          /\ ParsedAt(i)
          /\ DiffOut(i) # <<>> /\ WellFormed(DiffOut(i))
          /\ \A k \in DOMAIN invoked : ~ReturnedNonZero(k) ) =>
            /\ pc = "Done"
            /\ result.changed = TRUE
            /\ result.files = Classification(DiffOut(i))
            /\ {"git_commit", "git_push"} \subseteq Labels

\* C8: once the parse step has been called on well-formed lines, files holds in
\* each bucket the paths of the lines with that bucket's letter, in line order.
C8_ParserClassifies ==
    \A i \in DOMAIN invoked :
        (ParsedAt(i) /\ DiffOut(i) # <<>> /\ WellFormed(DiffOut(i))) =>
            /\ HasBuckets(result.files)
            /\ result.files = Classification(DiffOut(i))

\* C9: once the parse step has been called on a stdout with a line that is not
\* two tokens, the run is Failed with a fail_json message, and neither commit
\* nor push has been called.
C9_MalformedLineFails ==
    \A i \in DOMAIN invoked :
        (ParsedAt(i) /\ ~WellFormed(DiffOut(i))) =>
            /\ pc = "Failed"
            /\ failure.kind = "fail_json"
            /\ Labels \cap {"git_commit", "git_push"} = {}

\* C10: the dict returned by a run that ends in Done has local_path, a boolean
\* changed, and files with the buckets added, modified and deleted.
C10_DoneOutcomeShape ==
    pc = "Done" =>
        /\ {"local_path", "changed", "files"} \subseteq DOMAIN result
        /\ result.changed \in BOOLEAN
        /\ HasBuckets(result.files)

-----------------------------------------------------------------------------
(* Vocabulary of the properties of validation, transport and strings *)

\* the request lacks a required combination of fields
ViolatesRequired(p) ==
    \/ p.commit /\ ~Truthy(p.comment)
    \/ p.mode = "https" /\ (p.user = None \/ p.token = None)

GitCommands == {"git_add", "git_files_added", "git_commit", "git_push"}

\* the Transport Configurator has run
Configured == cleanup_files # <<>>

\* the number of occurrences of t in s
Count(s, t) ==
    Cardinality({ i \in 1..(Len(s) - Len(t) + 1) :
                    SubSeq(s, i, i + Len(t) - 1) = t })

\* lines 270-275 have run with accept_hostkey = true
HostkeyAccepted ==
    /\ "accept_hostkey" \in DOMAIN params
    /\ params.accept_hostkey
    /\ pc \notin {"module", "validate", "hostkey"}
    /\ failure.label \notin {"required_if", "comment"}

FlagsBefore == IF params.ssh_opts = None THEN 0 ELSE Count(params.ssh_opts, HostKeyFlag)

\* what a POSIX shell, or shlex, reads from a word that opens with a double
\* quote: inside the quotes a backslash escapes a double quote or a backslash
\* and is literal before any other character
RECURSIVE InQuotes(_, _)
InQuotes(s, acc) ==
    IF s = <<>> THEN [closed |-> FALSE, value |-> acc, rest |-> <<>>]
    ELSE IF Head(s) = "\"" THEN [closed |-> TRUE, value |-> acc, rest |-> Tail(s)]
    ELSE IF Head(s) = "\\"
         THEN IF Len(s) = 1 THEN [closed |-> FALSE, value |-> acc, rest |-> <<>>]
              ELSE IF s[2] \in {"\"", "\\"}
                   THEN InQuotes(Tail(Tail(s)), Append(acc, s[2]))
                   ELSE InQuotes(Tail(Tail(s)), acc \o <<"\\", s[2]>>)
    ELSE InQuotes(Tail(s), Append(acc, Head(s)))

Unquote(word) == InQuotes(Tail(word), <<>>)

\* get_repo_path has returned or raised
RepoResolved == repo_path # None \/ failure.label = "repo_path"

\* the .git entry is a file holding "gitdir: T" with T relative
RelativeGitFile ==
    /\ fsys.dot_git = "file"
    /\ LET parts == SplitOnce(RStrip(fsys.data), GitdirPrefix)
       IN /\ Len(parts) = 2
          /\ parts[1] = <<>>
          /\ ~IsAbs(parts[2])

GitdirTarget ==
    PathJoin(params.local_path, SplitOnce(RStrip(fsys.data), GitdirPrefix)[2])

-----------------------------------------------------------------------------
(* Properties of validation, transport and strings *)

\* C11: for a request that lacks a required combination (commit without a
\* comment, https without user or token) no process is ever started and no
\* wrapper script is ever created, and the run can only end in a fail_json.
C11_ValidationBeforeProcesses ==
    ViolatesRequired(params) =>
        /\ processes = <<>>
        /\ files_on_disk = {}
        /\ cleanup_files = <<>>
        /\ pc \in Terminal => (pc = "Failed" /\ failure.kind = "fail_json")

\* C11 witness: an https request without token has been rejected
C11_Witness ==
    /\ pc = "Failed"
    /\ params.mode = "https"
    /\ params.user # None
    /\ params.token = None
    /\ ~params.commit

\* C12: in a run with mode = https no step creates the wrapper script or
\* changes GIT_SSH, GIT_KEY or GIT_SSH_OPTS.
C12_HttpsLeavesTransportAlone ==
    [][params.mode = "https" =>
          (environ' = environ /\ SshWrapper \notin files_on_disk')]_vars

\* C13: once the Transport Configurator has run, GIT_SSH is the wrapper path,
\* GIT_KEY is key_file if one was supplied and absent otherwise, GIT_SSH_OPTS
\* is ssh_opts if supplied and absent otherwise.
C13_EnvironAfterConfigurator ==
    Configured =>
        /\ environ["GIT_SSH"] = SshWrapper
        /\ environ["GIT_KEY"] =
              (IF Truthy(params.key_file) THEN params.key_file ELSE Absent)
        /\ environ["GIT_SSH_OPTS"] =
              (IF Truthy(ssh_opts) THEN ssh_opts ELSE Absent)

\* C14: every git command of the loop is run with cwd = local_path and with
\* the locale variables set to C.
C14_CwdAndLocale ==
    \A i \in DOMAIN processes :
        processes[i].label \in GitCommands =>
            /\ processes[i].cwd = params.local_path
            /\ processes[i].env_update = LocaleC

\* C15: the word given to commit -m closes at its last character and reads
\* back as the commit message.
C15_MessageRoundTrip ==
    \A i \in DOMAIN processes :
        processes[i].label = "git_commit" =>
            LET read == Unquote(processes[i].arg)
            IN /\ read.closed
               /\ read.rest = <<>>
               /\ read.value = params.comment

\* C16: for a .git file holding a relative gitdir T, get_repo_path returns the
\* directory local_path/T when it exists and fails when it does not.
C16_RelativeGitdir ==
    (RepoResolved /\ RelativeGitFile) =>
        IF NormPath(GitdirTarget) \in fsys.dirs
        THEN /\ repo_path # None
             /\ NormPath(repo_path) = NormPath(GitdirTarget)
        ELSE /\ pc = "Failed"
             /\ failure.label = "repo_path"

\* C17 as stated: with accept_hostkey = true the options hold the flag exactly
\* once.
C17_FlagExactlyOnce ==
    HostkeyAccepted => Count(ssh_opts, HostKeyFlag) = 1

\* C17: with accept_hostkey = true the options hold the flag once when the
\* request's ssh_opts held it at most once and are unchanged when it held the
\* flag already; the request's ssh_opts is a prefix, followed by a space and
\* the flag when the flag was missing; applying the rule again changes nothing.
C17_FlagAppendedOnce ==
    HostkeyAccepted =>
        /\ Count(ssh_opts, HostKeyFlag) = (IF FlagsBefore = 0 THEN 1 ELSE FlagsBefore)
        /\ params.ssh_opts = None => ssh_opts = HostKeyFlag
        /\ params.ssh_opts # None =>
              /\ SubSeq(ssh_opts, 1, Len(params.ssh_opts)) = params.ssh_opts
              /\ FlagsBefore = 0 =>
                    ssh_opts = params.ssh_opts \o <<SP>> \o HostKeyFlag
              /\ FlagsBefore > 0 => ssh_opts = params.ssh_opts
        /\ AcceptHostkey(ssh_opts) = ssh_opts

\* C17 witness: the flag was appended to "-o Foo=bar"
C17_Witness ==
    /\ HostkeyAccepted
    /\ params.ssh_opts = OptFoo
    /\ ssh_opts = OptFoo \o <<SP>> \o HostKeyFlag

\* C18: every git command of the loop was started with the wrapper script on
\* disk and GIT_SSH naming it, and the wrapper is deleted only by the exit_json
\* or fail_json that ends the run.
C18_WrapperDuringCommands ==
    /\ \A i \in DOMAIN processes :
          processes[i].label \in GitCommands =>
              /\ processes[i].wrapper_on_disk
              /\ processes[i].git_ssh = SshWrapper
    /\ unlinks > 0 => pc \in {"Done", "Failed"}
    /\ (Configured /\ pc \notin Terminal) => SshWrapper \in files_on_disk

\* C18 witness: commit and push ran and the wrapper was deleted at the end
C18_Witness ==
    /\ pc = "Done"
    /\ unlinks = 1
    /\ \E i, j \in DOMAIN processes :
          /\ i < j
          /\ processes[i].label = "git_commit"
          /\ processes[j].label = "git_push"

\* C19: a result with changed = true has a path in some bucket.
C19_ChangedHasPaths ==
    ("changed" \in DOMAIN result /\ result.changed = TRUE) =>
        \E b \in DOMAIN result.files : result.files[b] # <<>>

\* C19: the case of the claim, a result with changed = true
C19_ChangedReported == "changed" \in DOMAIN result /\ result.changed = TRUE

====
